---- MODULE Spec2Model ----
(***************************************************************************)
(* WhatsApp -> Telegram media bridge (server.js).                          *)
(*                                                                         *)
(* Strings are sequences of one-character strings.  One message handler    *)
(* invocation is modelled per message slot; it advances at its suspension  *)
(* points (await downloadMedia, await telegramBot[...], await setTimeout). *)
(* A second, small state machine drives withRetry on its own with an       *)
(* arbitrary attempts argument.                                            *)
(***************************************************************************)
EXTENDS Integers, Sequences, FiniteSets, TLC

VARIABLES alive, st, obs, rt, proc, flt

vars == <<alive, st, obs, rt, proc, flt>>

----------------------------------------------------------------------------
(* Bounds of the model                                                     *)

MaxMsgs == 1          \* message handler invocations in flight
MaxAttempts == 4      \* largest attempts argument given to withRetry alone
MaxDisconnects == 2   \* 'disconnected' events of the source client
MaxConc == 2          \* message handler invocations in flight, reduced inputs
MaxPhoneLen == 3      \* characters of WHATSAPP_PHONE when the filter is run alone

Msgs == 1..MaxMsgs

----------------------------------------------------------------------------
(* Configuration and constants, server.js 7-12, 30                         *)

WHATSAPP_PHONE == <<"+", "9", "8">>
TELEGRAM_USER_ID == "tg-user"
MAX_FILE_SIZE_MB == 50
RETRY_ATTEMPTS == 3
RETRY_DELAY_MS == 1000
SUPPORTED_MEDIA_TYPES == {"image", "video", "audio", "document", "sticker"}

Suffix == <<"@", "c", ".", "u", "s">>

----------------------------------------------------------------------------
(* Input domains                                                           *)

Undefined == "undefined"

\* msg.type values the source platform produces; "chat" and "location" are
\* not media kinds.
MessageTypes == SUPPORTED_MEDIA_TYPES \cup {"chat", "location"}

Senders == { <<"9", "8">> \o Suffix,
             <<"+", "9", "8">> \o Suffix,
             <<"9", "7">> \o Suffix }

Timestamps == {7}

\* Lengths of media.data (base64 text).  13981014 -> 10 MB, 69905068 -> 50 MB
\* (52428801 decoded bytes), 70604118 -> 51 MB, 111848107 -> 80 MB.
DataLengths == {13981014, 69905068, 70604118, 111848107}

\* media.filename: absent, or a name with a character to replace
NoFileName == <<"<undefined>">>
FileNames == {NoFileName, <<"a", " ", "b", ".", "j">>}
MimeTypes == {"image/jpeg"}
Nows == {"1700000000000"}

TelegramErrors == {"ETELEGRAM"}
DownloadErrors == {"EDOWNLOAD"}
Errors == {"E1", "E2"}
Values == {"v1", "v2"}

----------------------------------------------------------------------------
(* Utility functions, server.js 34-89                                      *)

SafeChars == {"a", "b", "j", "x", "9", "8", "7", ".", "_", "-"}

\* String.prototype.substring(0, n)
Substring0(s, n) == SubSeq(s, 1, IF Len(s) < n THEN Len(s) ELSE n)

\* String.prototype.replace(ch, ''): only the first occurrence is removed.
ReplaceFirst(s, ch) ==
  IF \E k \in 1..Len(s) : s[k] = ch
  THEN LET k == CHOOSE k \in 1..Len(s) :
                  s[k] = ch /\ \A j \in 1..(k - 1) : s[j] # ch
       IN SubSeq(s, 1, k - 1) \o SubSeq(s, k + 1, Len(s))
  ELSE s

sanitizeFileName(filename, now) ==
  IF filename = NoFileName \/ filename = <<>>
  THEN <<"media_", now, ".bin">>
  ELSE Substring0([k \in 1..Len(filename) |->
                     IF filename[k] \in SafeChars THEN filename[k] ELSE "_"], 64)

\* variant: stickers get a method of their own
getTelegramSendMethod_mut(type) ==
  CASE type = "image" -> "sendPhoto"
    [] type = "video" -> "sendVideo"
    [] type = "audio" -> "sendAudio"
    [] type = "sticker" -> "sendSticker"
    [] OTHER -> "sendDocument"

getTelegramSendMethod(type) ==
  CASE type = "image" -> "sendPhoto"
    [] type = "video" -> "sendVideo"
    [] type = "audio" -> "sendAudio"
    [] OTHER -> "sendDocument"

\* variant: Math.floor in place of Math.round
estimateFileSize_mut(base64Length) ==
  (3 * base64Length) \div 4194304

\* Math.round((len * 3) / 4 / 1024 / 1024): the quotient is exact in a
\* double, Math.round rounds halves up.
estimateFileSize(base64Length) ==
  (3 * base64Length + 2097152) \div 4194304

\* Buffer.from(data, 'base64').length for unpadded data
Base64Bytes(base64Length) == (3 * base64Length) \div 4

\* new Date(ts * 1000).toLocaleString('en-US'), one token per timestamp
LocaleString(ts) == <<"date", ts>>

generateCaption(from, timestamp) ==
  Substring0(<<"Media from WhatsApp:", "\n", "From: ">> \o from
               \o <<"\n", "Time: ">> \o LocaleString(timestamp), 200)

----------------------------------------------------------------------------
(* Retry wrapper, server.js 58-68, as the steps between its awaits          *)

\* for (let i = 0; i < attempts; i++): at the loop test with counter i,
\* either the operation is called or the loop ends and the function
\* returns undefined.
withRetryLoop(i, attempts) ==
  IF i < attempts
  THEN [pc |-> "call", i |-> i]
  ELSE [pc |-> "returned", i |-> i]

\* variant: the last-iteration test is off by one, the loop runs out instead
withRetryCatch_mut(i, attempts, error) ==
  IF i = attempts
  THEN [pc |-> "thrown", error |-> error, warn |-> <<>>, delay |-> 0]
  ELSE [pc |-> "delay", error |-> error,
        warn |-> <<[level |-> "warn", text |-> <<"Retry", i + 1, attempts, error>>]>>,
        delay |-> RETRY_DELAY_MS]

\* variant: the warning carries the loop counter i, not i + 1
withRetryCatch_index(i, attempts, error) ==
  IF i = attempts - 1
  THEN [pc |-> "thrown", error |-> error, warn |-> <<>>, delay |-> 0]
  ELSE [pc |-> "delay", error |-> error,
        warn |-> <<[level |-> "warn", text |-> <<"Retry", i, attempts, error>>]>>,
        delay |-> RETRY_DELAY_MS]

\* variant: the delay grows with the attempt
withRetryCatch_backoff(i, attempts, error) ==
  IF i = attempts - 1
  THEN [pc |-> "thrown", error |-> error, warn |-> <<>>, delay |-> 0]
  ELSE [pc |-> "delay", error |-> error,
        warn |-> <<[level |-> "warn", text |-> <<"Retry", i + 1, attempts, error>>]>>,
        delay |-> RETRY_DELAY_MS * (i + 1)]

\* catch (error): rethrow on the last iteration, otherwise warn and wait.
withRetryCatch(i, attempts, error) ==
  IF i = attempts - 1
  THEN [pc |-> "thrown", error |-> error, warn |-> <<>>, delay |-> 0]
  ELSE [pc |-> "delay", error |-> error,
        warn |-> <<[level |-> "warn", text |-> <<"Retry", i + 1, attempts, error>>]>>,
        delay |-> RETRY_DELAY_MS]

\* variant: the return is missing, a success goes on to the next iteration
withRetryAwait_mut(i, attempts, ok, error) ==
  IF ok
  THEN [pc |-> "delay", error |-> Undefined, warn |-> <<>>, delay |-> 0]
  ELSE withRetryCatch(i, attempts, error)

\* try { return await operation() } catch ...: the awaited call settles.
withRetryAwait(i, attempts, ok, error) ==
  IF ok
  THEN [pc |-> "returned", error |-> Undefined, warn |-> <<>>, delay |-> 0]
  ELSE withRetryCatch(i, attempts, error)

----------------------------------------------------------------------------
(* Startup, reconnection and shutdown, server.js 7-27, 165-186              *)

\* process.env: a variable is absent, empty or set
EnvValues == {Undefined, "", "set"}
Envs == [TELEGRAM_BOT_TOKEN : EnvValues, TELEGRAM_USER_ID : EnvValues]
DefaultEnv == [TELEGRAM_BOT_TOKEN |-> "set", TELEGRAM_USER_ID |-> "set"]

Falsy(v) == v = Undefined \/ v = ""

\* variant: both variables must be missing for the check to fail
ConfigMissing_both(env) == Falsy(env.TELEGRAM_BOT_TOKEN) /\ Falsy(env.TELEGRAM_USER_ID)

\* line 15
ConfigMissing(env) == Falsy(env.TELEGRAM_BOT_TOKEN) \/ Falsy(env.TELEGRAM_USER_ID)

NoProc == [pc |-> "fresh", env |-> DefaultEnv, exitCode |-> -1, exitCause |-> "none",
           bot |-> FALSE, client |-> FALSE, handlers |-> {}, sigint |-> FALSE,
           inits |-> <<>>, timers |-> 0, disconnects |-> 0]

\* the module body runs: lines 7-27, 92-186
BootState(env) ==
  IF ConfigMissing(env)
  THEN [NoProc EXCEPT !.pc = "exited", !.env = env, !.exitCode = 1,
                      !.exitCause = "config"]
  ELSE [NoProc EXCEPT !.pc = "running", !.env = env,
                      !.bot = TRUE, !.client = TRUE,
                      !.handlers = {"message", "qr", "ready", "auth_failure",
                                    "disconnected"},
                      !.inits = <<[origin |-> "startup", caught |-> TRUE,
                                   state |-> "pending", logged |-> FALSE]>>,
                      !.sigint = TRUE]

Boot(env) ==
  /\ alive
  /\ proc.pc = "fresh"
  /\ proc' = BootState(env)
  /\ alive' = (BootState(env).pc = "running")
  /\ UNCHANGED <<st, obs, rt, flt>>

\* the promise of whatsappClient.initialize() settles.  The call of line
\* 174 has a catch that logs; the call of line 169 has none, its rejection
\* is an unhandled rejection, which only warns or ends the process.
InitializeSettles(k, ok, exits) ==
  /\ alive
  /\ proc.pc = "running"
  /\ k \in 1..Len(proc.inits)
  /\ proc.inits[k].state = "pending"
  /\ IF ok
     THEN /\ proc' = [proc EXCEPT !.inits[k].state = "resolved"]
          /\ alive' = alive
     ELSE IF proc.inits[k].caught
     THEN /\ proc' = [proc EXCEPT !.inits[k].state = "rejected",
                                  !.inits[k].logged = TRUE]
          /\ alive' = alive
     ELSE /\ proc' = [proc EXCEPT !.inits[k].state = "rejected",
                                  !.pc = IF exits THEN "exited" ELSE @,
                                  !.exitCode = IF exits THEN 1 ELSE @,
                                  !.exitCause = IF exits THEN "unhandledRejection" ELSE @]
          /\ alive' = ~exits
  /\ UNCHANGED <<st, obs, rt, flt>>

\* the 'disconnected' event fires: lines 165-171, a 5 s timer is set
Disconnected ==
  /\ alive
  /\ proc.pc = "running"
  /\ "disconnected" \in proc.handlers
  /\ proc.disconnects < MaxDisconnects
  /\ proc' = [proc EXCEPT !.disconnects = @ + 1, !.timers = @ + 1]
  /\ UNCHANGED <<alive, st, obs, rt, flt>>

\* the timer of line 167 fires: lines 168-169
RestartTimerFires ==
  /\ alive
  /\ proc.pc = "running"
  /\ proc.timers > 0
  /\ proc' = [proc EXCEPT !.timers = @ - 1,
                          !.inits = Append(@, [origin |-> "reconnect", caught |-> FALSE,
                                               state |-> "pending", logged |-> FALSE])]
  /\ UNCHANGED <<alive, st, obs, rt, flt>>

\* SIGINT: lines 179-184
Sigint ==
  /\ alive
  /\ proc.pc = "running"
  /\ proc.sigint
  /\ proc' = [proc EXCEPT !.pc = "exited", !.exitCode = 0, !.exitCause = "sigint",
                          !.bot = FALSE, !.client = FALSE]
  /\ alive' = FALSE
  /\ UNCHANGED <<st, obs, rt, flt>>

----------------------------------------------------------------------------
(* Message handler, server.js 92-145                                        *)

NoMsg == [from |-> <<>>, type |-> Undefined, hasMedia |-> FALSE, t |-> 0]
NoMedia == [data |-> 0, mimetype |-> Undefined, filename |-> NoFileName]

\* locals of one handler invocation
NoLocals == [pc |-> "idle", msg |-> NoMsg, media |-> NoMedia, fileSizeMB |-> 0,
             sanitizedFileName |-> <<>>, caption |-> <<>>,
             sendMethod |-> Undefined, i |-> 0]

\* what the invocation did to its collaborators and to the console
NoEffects == [msg |-> NoMsg, logs |-> <<>>, downloads |-> 0,
              download |-> "none", dataLen |-> 0, fileName |-> NoFileName,
              sends |-> <<>>, replies |-> <<>>]

Finished(s) == [NoLocals EXCEPT !.pc = "done"]

Log(o, level, text) == [o EXCEPT !.logs = Append(@, [level |-> level, text |-> text])]

\* msg.reply(text): the returned promise is neither awaited nor given a
\* rejection handler (lines 109, 117, 135, 142).
Reply(o, text) == [o EXCEPT !.replies = Append(@, [text |-> text, state |-> "pending"])]

ReplyDownloadError == [msg |-> "Error downloading media.", args |-> <<>>]
ReplyTooLarge(size) == [msg |-> "File is too large", args |-> <<size, MAX_FILE_SIZE_MB>>]
ReplyConfirm == [msg |-> "Media received and sent to Telegram.", args |-> <<>>]
ReplyProcessingError == [msg |-> "Error processing media.", args |-> <<>>]

\* variant: every '+' is removed, as replace(/\+/g, '') would
AcceptsSender_all(phone, from) ==
  from = SelectSeq(phone, LAMBDA ch : ch # "+") \o Suffix

\* the comparison of lines 94-96 for a given WHATSAPP_PHONE
AcceptsSender(phone, from) == from = ReplaceFirst(phone, "+") \o Suffix

NoFilter == [pc |-> "idle", phone |-> <<>>, from |-> <<>>, accepted |-> FALSE]

\* variant: the phone is accepted with or without its '+'
IsFromTarget_mut(from) ==
  \/ from = ReplaceFirst(WHATSAPP_PHONE, "+") \o Suffix
  \/ from = WHATSAPP_PHONE \o Suffix

\* line 96
IsFromTarget(from) == AcceptsSender(WHATSAPP_PHONE, from)

\* variant: only text messages are excluded
IsSupported_mut(type) == type # "chat"

\* line 101
IsSupported(type) == type \in SUPPORTED_MEDIA_TYPES

\* line 115
ExceedsLimit(fileSizeMB) == fileSizeMB > MAX_FILE_SIZE_MB

\* variant: the catch logs and sends nothing
HandlerCatch_mut(s, o, error) ==
  [s |-> Finished(s),
   o |-> Log(o, "error", <<"Error processing media", error>>)]

\* lines 136-143: catch of the handler
HandlerCatch(s, o, error) ==
  [s |-> Finished(s),
   o |-> Reply(Log(o, "error", <<"Error processing media", error>>),
               ReplyProcessingError)]

\* variant: the return of line 110 is missing, media.data throws into the catch
DownloadFailed_mut(s, o) ==
  HandlerCatch(s, Reply(Log(o, "error", <<"Failed to download media">>),
                        ReplyDownloadError), "TypeError")

\* lines 107-111: downloadMedia gave no media
DownloadFailed(s, o) ==
  [s |-> Finished(s),
   o |-> Reply(Log(o, "error", <<"Failed to download media">>), ReplyDownloadError)]

\* lines 82 and 135: sendMediaToTelegram returns, the handler acknowledges
Acknowledge(s, o) ==
  [s |-> Finished(s),
   o |-> Reply(Log(o, "log", <<"Media sent to Telegram successfully">>),
               ReplyConfirm)]

\* variant: the bot call is not awaited, the handler acknowledges at once
CallOperation_mut(s, o) ==
  Acknowledge(s, [o EXCEPT !.sends = Append(@,
            [method |-> s.sendMethod,
             chatId |-> TELEGRAM_USER_ID,
             bytes |-> Base64Bytes(s.media.data),
             caption |-> Substring0(s.caption, 200),
             contentType |-> s.media.mimetype,
             filename |-> s.sanitizedFileName,
             result |-> "pending"])])

\* variant: the file name is computed again on every retry, one second later
CallOperation_recompute(s, o) ==
  [s |-> [s EXCEPT !.pc = "send"],
   o |-> [o EXCEPT !.sends = Append(@,
            [method |-> s.sendMethod,
             chatId |-> TELEGRAM_USER_ID,
             bytes |-> Base64Bytes(s.media.data),
             caption |-> Substring0(s.caption, 200),
             contentType |-> s.media.mimetype,
             filename |-> IF s.i = 0 THEN s.sanitizedFileName
                          ELSE sanitizeFileName(s.media.filename, "1700000001000"),
             result |-> "pending"])]]

\* lines 75-80: the operation given to withRetry calls the bot
CallOperation(s, o) ==
  [s |-> [s EXCEPT !.pc = "send"],
   o |-> [o EXCEPT !.sends = Append(@,
            [method |-> s.sendMethod,
             chatId |-> TELEGRAM_USER_ID,
             bytes |-> Base64Bytes(s.media.data),
             caption |-> Substring0(s.caption, 200),
             contentType |-> s.media.mimetype,
             filename |-> s.sanitizedFileName,
             result |-> "pending"])]]

\* line 59: the loop test of withRetry inside sendMediaToTelegram
RetryLoop(s, o, i) ==
  IF withRetryLoop(i, RETRY_ATTEMPTS).pc = "call"
  THEN CallOperation([s EXCEPT !.i = i], o)
  ELSE Acknowledge(s, o)

\* lines 114-132: from the size check to the first call of the bot
Forward(s, o, media, now) ==
  LET fileSizeMB == estimateFileSize(media.data) IN
  IF ExceedsLimit(fileSizeMB)
  THEN [s |-> Finished(s),
        o |-> Reply(Log(o, "error", <<"File too large", fileSizeMB, MAX_FILE_SIZE_MB>>),
                    ReplyTooLarge(fileSizeMB))]
  ELSE LET s1 == [s EXCEPT !.media = media,
                           !.fileSizeMB = fileSizeMB,
                           !.sanitizedFileName = sanitizeFileName(media.filename, now),
                           !.caption = generateCaption(s.msg.from, s.msg.t),
                           !.sendMethod = getTelegramSendMethod(s.msg.type)]
           o1 == Log(o, "log", <<"Sending", s.msg.type, s1.sanitizedFileName, fileSizeMB>>)
       IN RetryLoop(s1, o1, 0)

Set(m, r) ==
  /\ st' = [st EXCEPT ![m] = r.s]
  /\ obs' = [obs EXCEPT ![m] = r.o]

\* the 'message' event fires: lines 92-106 up to the first await
Message(m, msg) ==
  /\ alive
  /\ "message" \in proc.handlers
  /\ st[m].pc = "idle"
  /\ LET s == [st[m] EXCEPT !.msg = msg]
         o == [obs[m] EXCEPT !.msg = msg] IN
     IF ~IsFromTarget(msg.from)
     THEN Set(m, [s |-> Finished(s), o |-> Log(o, "log", <<"Skipping message">>)])
     ELSE IF IsSupported(msg.type)
     THEN Set(m, [s |-> [s EXCEPT !.pc = "download"],
                  o |-> [Log(o, "log", <<"Incoming media">>)
                           EXCEPT !.downloads = @ + 1, !.download = "pending"]])
     ELSE Set(m, [s |-> Finished(s), o |-> o])
  /\ UNCHANGED <<alive, rt, proc, flt>>

\* await msg.downloadMedia() settles: lines 106-132
DownloadOutcomes ==
  {[kind |-> "null", media |-> NoMedia, error |-> Undefined]}
  \cup {[kind |-> "reject", media |-> NoMedia, error |-> e] : e \in DownloadErrors}
  \cup {[kind |-> "media", media |-> md, error |-> Undefined] :
          md \in [data : DataLengths, mimetype : MimeTypes, filename : FileNames]}

DownloadSettles(m, out, now) ==
  /\ alive
  /\ st[m].pc = "download"
  /\ LET s == st[m]
         o == [obs[m] EXCEPT !.download = out.kind, !.dataLen = out.media.data,
                             !.fileName = out.media.filename] IN
     CASE out.kind = "null" ->
            Set(m, DownloadFailed(s, o))
       [] out.kind = "reject" -> Set(m, HandlerCatch(s, o, out.error))
       [] OTHER -> Set(m, Forward(s, o, out.media, now))
  /\ UNCHANGED <<alive, rt, proc, flt>>

\* await telegramBot[sendMethod](...) settles: lines 61-66, 82, 135-142
SetResult(o, res) == [o EXCEPT !.sends[Len(o.sends)].result = res]

SendSettles(m, ok, error) ==
  /\ alive
  /\ st[m].pc = "send"
  /\ LET s == st[m]
         o == SetResult(obs[m], IF ok THEN "ok" ELSE "fail")
         c == withRetryAwait(s.i, RETRY_ATTEMPTS, ok, error) IN
     CASE c.pc = "returned" -> Set(m, Acknowledge(s, o))
       [] c.pc = "thrown" -> Set(m, HandlerCatch(s, o, c.error))
       [] OTHER -> Set(m, [s |-> [s EXCEPT !.pc = "delay"],
                           o |-> [o EXCEPT !.logs = @ \o c.warn]])
  /\ UNCHANGED <<alive, rt, proc, flt>>

\* variant: the loop counter is one variable shared by all invocations
DelayElapses_shared(m) ==
  /\ alive
  /\ st[m].pc = "delay"
  /\ LET top == CHOOSE i \in {st[n].i : n \in DOMAIN st} :
                   \A n \in DOMAIN st : st[n].i <= i
     IN Set(m, RetryLoop(st[m], obs[m], top + 1))
  /\ UNCHANGED <<alive, rt, proc, flt>>

\* the setTimeout of line 65 fires: i++ and the loop test
DelayElapses(m) ==
  /\ alive
  /\ st[m].pc = "delay"
  /\ Set(m, RetryLoop(st[m], obs[m], st[m].i + 1))
  /\ UNCHANGED <<alive, rt, proc, flt>>

\* variant: the confirmation is awaited inside the try, its rejection is
\* caught and answered with the processing error
ReplySettles_awaited(m, k, ok, exits) ==
  /\ alive
  /\ k \in 1..Len(obs[m].replies)
  /\ obs[m].replies[k].state = "pending"
  /\ obs' = [obs EXCEPT ![m] =
               IF ok THEN [@ EXCEPT !.replies[k].state = "resolved"]
               ELSE IF @.replies[k].text = ReplyConfirm
               THEN Reply([@ EXCEPT !.replies[k].state = "rejected"], ReplyProcessingError)
               ELSE [@ EXCEPT !.replies[k].state = "rejected"]]
  /\ alive' = IF ok \/ obs[m].replies[k].text = ReplyConfirm THEN alive ELSE ~exits
  /\ UNCHANGED <<st, rt, proc, flt>>

\* a promise returned by msg.reply settles.  A rejection has no handler:
\* the runtime raises unhandledRejection, which either only warns or ends
\* the process, depending on the runtime's unhandled-rejections mode.
ReplySettles(m, k, ok, exits) ==
  /\ alive
  /\ k \in 1..Len(obs[m].replies)
  /\ obs[m].replies[k].state = "pending"
  /\ obs' = [obs EXCEPT ![m].replies[k].state = IF ok THEN "resolved" ELSE "rejected"]
  /\ alive' = IF ok THEN alive ELSE ~exits
  /\ UNCHANGED <<st, rt, proc, flt>>

----------------------------------------------------------------------------
(* withRetry called on its own with an arbitrary operation and attempts     *)

NoRetry == [pc |-> "idle", attempts |-> 0, i |-> 0, calls |-> <<>>,
            logs |-> <<>>, waits |-> <<>>, result |-> Undefined]

RetryCall(r, i) ==
  IF withRetryLoop(i, r.attempts).pc = "call"
  THEN [r EXCEPT !.pc = "call", !.i = i, !.calls = Append(@, "pending")]
  ELSE [r EXCEPT !.pc = "returned", !.i = i, !.result = Undefined]

\* withRetry(operation, attempts) is called: line 59 up to the first await
RetryInvoke(attempts) ==
  /\ rt.pc = "idle"
  /\ rt' = RetryCall([rt EXCEPT !.attempts = attempts], 0)
  /\ UNCHANGED <<alive, st, obs, proc, flt>>

\* await operation() settles: lines 61-65
RetryOperationSettles(ok, value, error) ==
  /\ rt.pc = "call"
  /\ LET r == [rt EXCEPT !.calls[Len(rt.calls)] = IF ok THEN value ELSE error]
         c == withRetryAwait(rt.i, rt.attempts, ok, error) IN
     CASE c.pc = "returned" -> rt' = [r EXCEPT !.pc = "returned", !.result = value]
       [] c.pc = "thrown" -> rt' = [r EXCEPT !.pc = "thrown", !.result = c.error]
       [] OTHER -> rt' = [r EXCEPT !.pc = "delay", !.logs = @ \o c.warn,
                                   !.waits = Append(@, c.delay)]
  /\ UNCHANGED <<alive, st, obs, proc, flt>>

\* the setTimeout of line 65 fires: i++ and the loop test
RetryDelayElapses ==
  /\ rt.pc = "delay"
  /\ rt' = RetryCall(rt, rt.i + 1)
  /\ UNCHANGED <<alive, st, obs, proc, flt>>

----------------------------------------------------------------------------
(* Specifications                                                           *)

\* events of every sender and type; the handler never reads hasMedia, so
\* events without media are drawn for one media kind and one other type only
MsgEvents ==
  [from : Senders, type : MessageTypes, hasMedia : {TRUE}, t : Timestamps]
  \cup [from : Senders, type : {"image", "chat"}, hasMedia : {FALSE}, t : Timestamps]

Init ==
  /\ alive = TRUE
  /\ st = [m \in Msgs |-> NoLocals]
  /\ obs = [m \in Msgs |-> NoEffects]
  /\ rt = NoRetry
  /\ proc = BootState(DefaultEnv)
  /\ flt = NoFilter

Next ==
  \/ \E m \in Msgs, msg \in MsgEvents : Message(m, msg)
  \/ \E m \in Msgs, out \in DownloadOutcomes, now \in Nows : DownloadSettles(m, out, now)
  \/ \E m \in Msgs, ok \in BOOLEAN, e \in TelegramErrors : SendSettles(m, ok, e)
  \/ \E m \in Msgs : DelayElapses(m)
  \/ \E m \in Msgs, k \in 1..2, ok \in BOOLEAN, exits \in BOOLEAN : ReplySettles(m, k, ok, exits)

Spec == Init /\ [][Next]_vars

NextRetry ==
  \/ \E a \in 0..MaxAttempts : RetryInvoke(a)
  \/ \E ok \in BOOLEAN, v \in Values, e \in Errors : RetryOperationSettles(ok, v, e)
  \/ RetryDelayElapses

SpecRetry == Init /\ [][NextRetry]_vars

\* the process from its start: configuration check, initialization,
\* reconnection, shutdown, and the arrival of a message
InitStartup ==
  /\ alive = TRUE
  /\ st = [m \in Msgs |-> NoLocals]
  /\ obs = [m \in Msgs |-> NoEffects]
  /\ rt = NoRetry
  /\ proc = NoProc
  /\ flt = NoFilter

NextStartup ==
  \/ \E env \in Envs : Boot(env)
  \/ \E k \in 1..(MaxDisconnects + 1), ok \in BOOLEAN, exits \in BOOLEAN :
       InitializeSettles(k, ok, exits)
  \/ Disconnected
  \/ RestartTimerFires
  \/ Sigint
  \/ \E msg \in MsgEvents : Message(1, msg)

SpecStartup == InitStartup /\ [][NextStartup]_vars

\* several handler invocations in flight, on events that differ in their
\* timestamp and on payloads that differ in length and file name
ConcMsgs == 1..MaxConc
ConcEvents == [from : {<<"9", "8">> \o Suffix}, type : {"image"},
               hasMedia : {TRUE}, t : {7, 8}]
ConcOutcomes ==
  {[kind |-> "null", media |-> NoMedia, error |-> Undefined],
   [kind |-> "media", error |-> Undefined,
    media |-> [data |-> 13981014, mimetype |-> "image/jpeg", filename |-> NoFileName]],
   [kind |-> "media", error |-> Undefined,
    media |-> [data |-> 69905068, mimetype |-> "image/jpeg",
               filename |-> <<"a", " ", "b", ".", "j">>]]}

InitConc ==
  /\ alive = TRUE
  /\ st = [m \in ConcMsgs |-> NoLocals]
  /\ obs = [m \in ConcMsgs |-> NoEffects]
  /\ rt = NoRetry
  /\ proc = BootState(DefaultEnv)
  /\ flt = NoFilter

Arrives(m) == \E msg \in ConcEvents : Message(m, msg)

Settles(m) ==
  \/ \E out \in ConcOutcomes, now \in Nows : DownloadSettles(m, out, now)
  \/ \E ok \in BOOLEAN, e \in TelegramErrors : SendSettles(m, ok, e)
  \/ DelayElapses(m)
  \/ \E k \in 1..2, ok \in BOOLEAN, exits \in BOOLEAN : ReplySettles(m, k, ok, exits)

NextConc == \E m \in ConcMsgs : Arrives(m) \/ Settles(m)

SpecConc == InitConc /\ [][NextConc]_vars

\* every pending collaborator call and every retry delay completes
FairConc == SpecConc /\ \A m \in ConcMsgs : WF_vars(Settles(m))

\* the sender filter alone, for every phone and sender string of the bounds
PhoneChars == {"+", "9", "8"}
PhoneStrings == UNION {[1..n -> PhoneChars] : n \in 0..MaxPhoneLen}
SenderStrings == PhoneStrings \cup {p \o Suffix : p \in PhoneStrings}

InitFilter ==
  /\ alive = TRUE
  /\ st = [m \in Msgs |-> NoLocals]
  /\ obs = [m \in Msgs |-> NoEffects]
  /\ rt = NoRetry
  /\ proc = BootState(DefaultEnv)
  /\ \E phone \in PhoneStrings, from \in SenderStrings :
       flt = [NoFilter EXCEPT !.phone = phone, !.from = from]

\* lines 94-96 on the drawn phone and sender
FilterApply ==
  /\ flt.pc = "idle"
  /\ flt' = [flt EXCEPT !.pc = "done", !.accepted = AcceptsSender(flt.phone, flt.from)]
  /\ UNCHANGED <<alive, st, obs, rt, proc>>

SpecFilter == InitFilter /\ [][FilterApply]_vars

----------------------------------------------------------------------------
(* Properties                                                               *)

FiveKinds == {"image", "video", "audio", "document", "sticker"}

\* the configured phone without its leading '+', followed by "@c.us"
ConfiguredTarget ==
  (IF WHATSAPP_PHONE # <<>> /\ Head(WHATSAPP_PHONE) = "+"
   THEN Tail(WHATSAPP_PHONE) ELSE WHATSAPP_PHONE) \o Suffix

\* the integer nearest to len * 3 / 4 / 1024 / 1024, halves upward
NearestMB(len) ==
  CHOOSE n \in 0..128 :
    (2 * n - 1) * 4194304 <= 6 * len /\ 6 * len < (2 * n + 1) * 4194304

Handled(m) == st[m].pc # "idle"
FromTarget(m) == Handled(m) /\ obs[m].msg.from = ConfiguredTarget
ReplyTexts(m) == [k \in 1..Len(obs[m].replies) |-> obs[m].replies[k].text]
SendResults(m) == {obs[m].sends[k].result : k \in 1..Len(obs[m].sends)}

\* C1: an event whose sender is not the configured target causes no
\* downloadMedia, no send to the destination and no reply; its only effect
\* is one log line.
C1_NonTargetOnlyLogs ==
  \A m \in Msgs :
    (Handled(m) /\ obs[m].msg.from # ConfiguredTarget) =>
      /\ st[m].pc = "done"
      /\ obs[m].downloads = 0
      /\ obs[m].sends = <<>>
      /\ obs[m].replies = <<>>
      /\ Len(obs[m].logs) = 1
      /\ obs[m].logs[1].level = "log"

C1_Witness ==
  \E m \in Msgs :
    /\ st[m].pc = "done"
    /\ obs[m].msg.from = WHATSAPP_PHONE \o Suffix
    /\ obs[m].msg.type = "image"
    /\ obs[m].msg.hasMedia
    /\ Len(obs[m].logs) = 1

\* C2: with attempts >= 1 and an operation that fails on every call,
\* withRetry calls it exactly attempts times, never once more, and then
\* throws the error of the last call.
C2_ExhaustedThrowsLast ==
  rt.attempts >= 1 =>
    /\ Len(rt.calls) <= rt.attempts
    /\ (rt.pc \in {"returned", "thrown"}
          /\ \A k \in 1..Len(rt.calls) : rt.calls[k] \in Errors) =>
         /\ rt.pc = "thrown"
         /\ Len(rt.calls) = rt.attempts
         /\ rt.result = rt.calls[Len(rt.calls)]

C2_Witness ==
  /\ rt.pc = "thrown"
  /\ rt.attempts = 3
  /\ Len(rt.calls) = 3
  /\ rt.calls[1] = "E1"
  /\ rt.calls[3] = "E2"
  /\ rt.result = "E2"

\* C3: once a call of the operation succeeds, withRetry has returned its
\* value and that call is the last one: k failures followed by a success
\* give exactly k + 1 calls.
C3_NoRetryAfterSuccess ==
  \A k \in 1..Len(rt.calls) :
    rt.calls[k] \in Values =>
      /\ k = Len(rt.calls)
      /\ \A j \in 1..(k - 1) : rt.calls[j] \in Errors
      /\ k <= rt.attempts
      /\ rt.pc = "returned"
      /\ rt.result = rt.calls[k]

C3_Witness ==
  /\ rt.pc = "returned"
  /\ rt.attempts = 4
  /\ Len(rt.calls) = 2
  /\ rt.calls[1] \in Errors
  /\ rt.calls[2] \in Values

\* C4: for an event from the target with a supported kind and a payload
\* within the ceiling, when no send succeeds the handler ends after exactly
\* 3 failed send calls with exactly one reply, the generic processing
\* error, and no reply is sent before that.
C4_ExhaustedOneErrorReply ==
  \A m \in Msgs :
    (/\ FromTarget(m)
     /\ obs[m].msg.type \in FiveKinds
     /\ obs[m].download = "media"
     /\ NearestMB(obs[m].dataLen) <= MAX_FILE_SIZE_MB
     /\ "ok" \notin SendResults(m)) =>
      /\ Len(obs[m].sends) \in 1..3
      /\ st[m].pc # "done" => obs[m].replies = <<>>
      /\ st[m].pc = "done" =>
           /\ Len(obs[m].sends) = 3
           /\ SendResults(m) = {"fail"}
           /\ ReplyTexts(m) = <<ReplyProcessingError>>

C4_Witness ==
  \E m \in Msgs :
    /\ st[m].pc = "done"
    /\ Len(obs[m].sends) = 3
    /\ SendResults(m) = {"fail"}
    /\ ReplyTexts(m) = <<ReplyProcessingError>>

\* C5: for an event from the target with a supported kind whose payload is
\* estimated above the ceiling, no send is made and exactly one reply is
\* sent, which carries the measured size and the ceiling.
C5_OversizeRejected ==
  \A m \in Msgs :
    (/\ FromTarget(m)
     /\ obs[m].msg.type \in FiveKinds
     /\ obs[m].download = "media"
     /\ NearestMB(obs[m].dataLen) > 50) =>
      /\ obs[m].sends = <<>>
      /\ ReplyTexts(m) = <<[msg |-> "File is too large",
                            args |-> <<NearestMB(obs[m].dataLen), 50>>]>>

C5_Witness ==
  \E m \in Msgs :
    /\ obs[m].msg.type = "image"
    /\ obs[m].download = "media"
    /\ obs[m].dataLen = 111848107
    /\ ReplyTexts(m) = <<[msg |-> "File is too large", args |-> <<80, 50>>]>>

\* C6: when downloadMedia returns no payload, it was called exactly once,
\* no send is made and exactly one reply is sent, the download error.
C6_DownloadFailureOneReply ==
  \A m \in Msgs :
    /\ obs[m].downloads <= 1
    /\ (/\ FromTarget(m)
        /\ obs[m].msg.type \in FiveKinds
        /\ obs[m].download = "null") =>
         /\ obs[m].downloads = 1
         /\ obs[m].sends = <<>>
         /\ ReplyTexts(m) = <<ReplyDownloadError>>

C6_Witness ==
  \E m \in Msgs :
    /\ st[m].pc = "done"
    /\ obs[m].download = "null"
    /\ obs[m].downloads = 1
    /\ Len(obs[m].replies) = 1

\* C7 as stated: an event from the target without media, or of a kind
\* outside the five supported ones, causes no downloadMedia, no send and no
\* reply.
C7_NoMediaOrUnsupportedSilent ==
  \A m \in Msgs :
    (FromTarget(m) /\ (~obs[m].msg.hasMedia \/ obs[m].msg.type \notin FiveKinds)) =>
      /\ obs[m].downloads = 0
      /\ obs[m].sends = <<>>
      /\ obs[m].replies = <<>>

\* C7 as amended: an event from the target of a kind outside the five
\* supported ones causes no downloadMedia, no send and no reply, whatever
\* its hasMedia flag; an event of a supported kind has downloadMedia called
\* even when hasMedia is false.
C7_UnsupportedKindSilent ==
  \A m \in Msgs :
    /\ (FromTarget(m) /\ obs[m].msg.type \notin FiveKinds) =>
         /\ st[m].pc = "done"
         /\ obs[m].downloads = 0
         /\ obs[m].sends = <<>>
         /\ obs[m].replies = <<>>
    /\ (FromTarget(m) /\ obs[m].msg.type \in FiveKinds) =>
         obs[m].downloads = 1

C7_Witness ==
  \E m \in Msgs :
    /\ FromTarget(m)
    /\ obs[m].msg.type = "location"
    /\ obs[m].msg.hasMedia
    /\ st[m].pc = "done"

\* C8: a confirmation reply exists only when the last send call of the
\* event succeeded; a successful send call is the last send call of its
\* event, is one of at most 3, and ends the event with the confirmation as
\* its only reply.
C8_ConfirmOnlyAfterSuccess ==
  \A m \in Msgs :
    /\ (\E k \in 1..Len(obs[m].replies) : obs[m].replies[k].text = ReplyConfirm) =>
         /\ obs[m].sends # <<>>
         /\ obs[m].sends[Len(obs[m].sends)].result = "ok"
    /\ \A k \in 1..Len(obs[m].sends) :
         obs[m].sends[k].result = "ok" =>
           /\ k = Len(obs[m].sends)
           /\ k <= 3
           /\ st[m].pc = "done"
           /\ ReplyTexts(m) = <<ReplyConfirm>>

C8_Witness ==
  \E m \in Msgs :
    /\ obs[m].msg.type = "document"
    /\ Len(obs[m].sends) = 3
    /\ obs[m].sends[1].result = "fail"
    /\ obs[m].sends[2].result = "fail"
    /\ obs[m].sends[3].result = "ok"
    /\ ReplyTexts(m) = <<ReplyConfirm>>

\* C9: every send call of an event uses the operation of the event's kind:
\* image sendPhoto, video sendVideo, audio sendAudio, document and sticker
\* sendDocument.
ExpectedMethod ==
  [k \in FiveKinds |->
     CASE k = "image" -> "sendPhoto"
       [] k = "video" -> "sendVideo"
       [] k = "audio" -> "sendAudio"
       [] k = "document" -> "sendDocument"
       [] k = "sticker" -> "sendDocument"]

C9_MethodByKind ==
  \A m \in Msgs :
    \A k \in 1..Len(obs[m].sends) :
      /\ obs[m].msg.type \in FiveKinds
      /\ obs[m].sends[k].method = ExpectedMethod[obs[m].msg.type]

C9_Witness ==
  \E m \in Msgs :
    /\ obs[m].msg.type = "sticker"
    /\ Len(obs[m].sends) = 2
    /\ obs[m].sends[2].method = "sendDocument"

\* C10: no error raised while a message is processed, a failing reply
\* included, ever terminates the process.
C10_ProcessSurvives ==
  alive

----------------------------------------------------------------------------
(* Properties of withRetry's warnings and waits, and of the size limit      *)

FailedCalls == {k \in 1..Len(rt.calls) : rt.calls[k] \in Errors}
RetryEnded == rt.pc \in {"returned", "thrown"}

\* the i-th warning carries attempt index i and the error of attempt i
WarningsInOrder ==
  \A i \in 1..Len(rt.logs) :
    /\ rt.logs[i].level = "warn"
    /\ i <= Len(rt.calls)
    /\ rt.logs[i].text[2] = i
    /\ rt.logs[i].text[4] = rt.calls[i]

\* C11 as stated: after any run of withRetry the number of warnings equals
\* the number of failed attempts, the final failed attempt of an exhausted
\* run included, and the i-th warning carries index i and that attempt's
\* error.
C11_WarningPerFailure ==
  RetryEnded =>
    /\ Len(rt.logs) = Cardinality(FailedCalls)
    /\ WarningsInOrder

\* C11 as amended: a failed attempt emits a warning exactly when a retry
\* follows it; the final failed attempt of an exhausted run emits none, so
\* an exhausted run has one warning less than failed attempts; the i-th
\* warning carries index i and that attempt's error.
C11_WarningPerRetriedFailure ==
  /\ WarningsInOrder
  /\ RetryEnded =>
       Len(rt.logs) = IF rt.pc = "thrown"
                      THEN Cardinality(FailedCalls) - 1
                      ELSE Cardinality(FailedCalls)

C11_Witness ==
  /\ rt.pc = "thrown"
  /\ rt.attempts = 3
  /\ Len(rt.calls) = 3
  /\ Len(rt.logs) = 2
  /\ rt.logs[2].text = <<"Retry", 2, 3, "E2">>

\* C12: every payload whose decoded size, 3/4 of the encoded length, is
\* strictly greater than 50 * 1024 * 1024 bytes ends with the size reply and
\* without a send call.
C12_Over50MBRejected ==
  \A m \in Msgs :
    (/\ FromTarget(m)
     /\ obs[m].msg.type \in FiveKinds
     /\ obs[m].download = "media"
     /\ 3 * obs[m].dataLen > 4 * (50 * 1024 * 1024)) =>
      /\ obs[m].sends = <<>>
      /\ Len(obs[m].replies) = 1
      /\ obs[m].replies[1].text.msg = "File is too large"

\* C19: withRetry waits only between two consecutive attempts: no wait
\* before the first call, one wait of 1000 ms after each failed call that is
\* followed by another, none after a success or after the final failure, so
\* a run of n >= 1 attempts has n - 1 waits.
C19_WaitBetweenAttempts ==
  /\ \A k \in 1..Len(rt.waits) : rt.waits[k] = 1000
  /\ rt.pc = "delay" => Len(rt.waits) = Len(rt.calls)
  /\ rt.pc = "call" => Len(rt.waits) = Len(rt.calls) - 1
  /\ (RetryEnded /\ rt.calls # <<>>) => Len(rt.waits) = Len(rt.calls) - 1
  /\ (RetryEnded /\ rt.calls = <<>>) => rt.waits = <<>>

C19_Witness ==
  /\ rt.pc = "thrown"
  /\ Len(rt.calls) = 4
  /\ rt.waits = <<1000, 1000, 1000>>

----------------------------------------------------------------------------
(* Properties of the replies and of the send calls of one event            *)

ErrorReplies == {ReplyDownloadError, ReplyProcessingError}
                  \cup {ReplyTooLarge(n) : n \in 0..128}

\* C17: whatever the collaborators answer, a rejected reply included, at
\* most one reply is invoked for an event; no event gets both the
\* confirmation and an error reply.
C17_AtMostOneReply ==
  \A m \in Msgs :
    /\ Len(obs[m].replies) <= 1
    /\ ~ /\ \E k \in 1..Len(obs[m].replies) : obs[m].replies[k].text = ReplyConfirm
         /\ \E k \in 1..Len(obs[m].replies) : obs[m].replies[k].text \in ErrorReplies

C17_Witness ==
  \E m \in Msgs :
    /\ alive
    /\ Len(obs[m].replies) = 1
    /\ obs[m].replies[1].text = ReplyConfirm
    /\ obs[m].replies[1].state = "rejected"

SendArgs(c) == <<c.method, c.chatId, c.bytes, c.contentType, c.filename, c.caption>>

\* C18: the send calls of one event are at most 3 and all carry the same
\* operation, destination id, payload, MIME type, file name and caption.
C18_OneAttemptSequence ==
  \A m \in Msgs :
    /\ Len(obs[m].sends) <= 3
    /\ \A j, k \in 1..Len(obs[m].sends) :
         SendArgs(obs[m].sends[j]) = SendArgs(obs[m].sends[k])
    /\ \A k \in 1..Len(obs[m].sends) : obs[m].sends[k].chatId = "tg-user"

C18_Witness ==
  \E m \in Msgs :
    /\ Len(obs[m].sends) = 3
    /\ obs[m].sends[1].filename = <<"media_", "1700000000000", ".bin">>
    /\ obs[m].sends[3].filename = <<"media_", "1700000000000", ".bin">>
    /\ obs[m].sends[3].bytes = 10485760

----------------------------------------------------------------------------
(* Properties of startup and reconnection                                   *)

Started == proc.pc # "fresh"

\* C13: when TELEGRAM_BOT_TOKEN or TELEGRAM_USER_ID is absent at startup the
\* process exits with status 1 and nothing else has happened or ever
\* happens: no collaborator constructed or initialized, no handler
\* registered, no message handled.
C13_MissingConfigExitsFirst ==
  (Started /\ (proc.env.TELEGRAM_BOT_TOKEN = "undefined"
                \/ proc.env.TELEGRAM_USER_ID = "undefined")) =>
    /\ ~alive
    /\ proc.pc = "exited"
    /\ proc.exitCode = 1
    /\ ~proc.bot
    /\ ~proc.client
    /\ proc.handlers = {}
    /\ proc.inits = <<>>
    /\ \A m \in Msgs : st[m].pc = "idle" /\ obs[m] = NoEffects

C13_Witness ==
  /\ proc.pc = "exited"
  /\ proc.env.TELEGRAM_BOT_TOKEN = "set"
  /\ proc.env.TELEGRAM_USER_ID = "undefined"
  /\ proc.exitCode = 1

\* C14: a failed initialization of the source client, at startup or in the
\* re-initialization after a 'disconnected' event, never ends the process.
C14_InitFailureSurvives ==
  \A k \in 1..Len(proc.inits) :
    proc.inits[k].state = "rejected" =>
      /\ proc.exitCause # "unhandledRejection"
      /\ proc.exitCause = "none" => alive

----------------------------------------------------------------------------
(* Properties of the sender filter                                          *)

StripLeadingPlus(s) == IF s # <<>> /\ Head(s) = "+" THEN Tail(s) ELSE s

RECURSIVE DropFirstPlus(_)
DropFirstPlus(s) ==
  IF s = <<>> THEN <<>>
  ELSE IF Head(s) = "+" THEN Tail(s)
  ELSE <<Head(s)>> \o DropFirstPlus(Tail(s))

\* C20 as stated: the filter accepts exactly the sender that is the phone
\* with a leading '+' removed, and nothing else removed, followed by "@c.us".
C20_AcceptsLeadingPlusStripped ==
  flt.pc = "done" =>
    (flt.accepted <=> flt.from = StripLeadingPlus(flt.phone) \o <<"@", "c", ".", "u", "s">>)

\* C20 as amended: the filter accepts exactly the sender that is the phone
\* with its first '+' removed, wherever it stands, followed by "@c.us"; this
\* is the phone without its leading '+' whenever the phone has no '+' after
\* its first character.
C20_AcceptsFirstPlusRemoved ==
  flt.pc = "done" =>
    /\ flt.accepted <=> flt.from = DropFirstPlus(flt.phone) \o <<"@", "c", ".", "u", "s">>
    /\ (\A k \in 2..Len(flt.phone) : flt.phone[k] # "+") =>
         (flt.accepted <=>
            flt.from = StripLeadingPlus(flt.phone) \o <<"@", "c", ".", "u", "s">>)

C20_Witness ==
  /\ flt.pc = "done"
  /\ flt.phone = <<"9", "+", "8">>
  /\ flt.from = <<"9", "8", "@", "c", ".", "u", "s">>
  /\ flt.accepted

----------------------------------------------------------------------------
(* Properties of concurrent events                                          *)

InFlight(m) == st[m].pc \in {"download", "send", "delay"}
Results(m) == [k \in 1..Len(obs[m].sends) |-> obs[m].sends[k].result]

\* the send results an event can show on its own: failures, then at most
\* one pending or successful call, within 3 attempts
OwnAttempts(m) ==
  LET r == Results(m) IN
  /\ Len(r) <= 3
  /\ \A k \in 1..(Len(r) - 1) : r[k] = "fail"
  /\ st[m].pc = "send" <=> (r # <<>> /\ r[Len(r)] = "pending")
  /\ st[m].pc = "delay" => (r # <<>> /\ r[Len(r)] = "fail" /\ Len(r) < 3)
  /\ (st[m].pc = "done" /\ r # <<>>) =>
       (r[Len(r)] = "ok" \/ (r[Len(r)] = "fail" /\ Len(r) = 3))

\* the replies an event gets on its own, from its own responses
OwnReplies(m) ==
  IF st[m].pc # "done" THEN <<>>
  ELSE IF obs[m].download = "null" THEN <<ReplyDownloadError>>
  ELSE IF NearestMB(obs[m].dataLen) > 50 THEN <<ReplyTooLarge(NearestMB(obs[m].dataLen))>>
  ELSE IF \E k \in 1..Len(obs[m].sends) : obs[m].sends[k].result = "ok"
  THEN <<ReplyConfirm>>
  ELSE <<ReplyProcessingError>>

\* the arguments of a send call computed from the event's own message and
\* its own downloaded media
OwnSend(m, c) ==
  /\ c.method = "sendPhoto"
  /\ c.bytes * 4 <= 3 * obs[m].dataLen
  /\ 3 * obs[m].dataLen < (c.bytes + 1) * 4
  /\ c.filename = IF obs[m].fileName = NoFileName
                  THEN <<"media_", "1700000000000", ".bin">>
                  ELSE <<"a", "_", "b", ".", "j">>
  /\ c.caption = <<"Media from WhatsApp:", "\n", "From: ">> \o obs[m].msg.from
                    \o <<"\n", "Time: ", "date", obs[m].msg.t>>

\* C15: with several events in flight, each event shows the attempts,
\* the send arguments and the replies it would show alone, given its own
\* message and the responses to its own calls.
C15_EventsIndependent ==
  \A m \in ConcMsgs :
    Handled(m) =>
      /\ OwnAttempts(m)
      /\ ReplyTexts(m) = OwnReplies(m)
      /\ \A k \in 1..Len(obs[m].sends) : OwnSend(m, obs[m].sends[k])

C15_Witness ==
  /\ st[1].pc = "delay" /\ st[1].i = 1
  /\ obs[1].msg.t = 7 /\ obs[1].dataLen = 13981014
  /\ st[2].pc = "send" /\ st[2].i = 0
  /\ obs[2].msg.t = 8 /\ obs[2].dataLen = 69905068

\* C16: when every collaborator call and every retry delay completes, every
\* event in flight eventually reaches the end of its handler.
C16_EventuallyTerminal ==
  \A m \in ConcMsgs : InFlight(m) ~> (st[m].pc = "done")

====
